---- MODULE Spec2Model ----
(***************************************************************************)
(* A model of the gcbmgr script (src/unnamed/part_000): the command        *)
(* dispatcher, the job lister, the job streamer, the staged-build reporter *)
(* and the job submitter.  Text the script transforms (account names,      *)
(* build versions, build ids, status filters) is a sequence of one-        *)
(* character strings, so that the shell's case conversions, pattern        *)
(* substitutions and the build-id regular expression are computed as bash  *)
(* computes them.  An unset or empty shell variable is the empty sequence. *)
(* Every external command the script runs, and the confirmation prompt, is *)
(* appended to `calls`; every message the script prints is appended to     *)
(* `out`.                                                                  *)
(***************************************************************************)
EXTENDS Integers, Sequences, FiniteSets, TLC

\* ------------------------------------------------------------------ bounds

\* Longest padding put before and after the run of characters of a build id.
MaxPad == 1
\* Longest job list the build service returns in the whole-script model.
MaxJobs == 2
\* Longest job list the build service returns in the job-lister model.
MaxListJobs == 6

\* ------------------------------------------------------- program constants

\* The repetition count of the build-id pattern [a-f0-9-]{32}.
IdRunLen == 32
\* list_jobs: local count=5.
ListCount == 5
\* DISK_SIZE="300" and, for release, DISK_SIZE="100".
StageDiskSize == 300
ReleaseDiskSize == 100

\* -------------------------------------------------------------------- text

Empty == <<>>

UpperLetters ==
  <<"A", "B", "C", "D", "E", "F", "G", "H", "I", "J", "K", "L", "M",
    "N", "O", "P", "Q", "R", "S", "T", "U", "V", "W", "X", "Y", "Z">>

LowerLetters ==
  <<"a", "b", "c", "d", "e", "f", "g", "h", "i", "j", "k", "l", "m",
    "n", "o", "p", "q", "r", "s", "t", "u", "v", "w", "x", "y", "z">>

\* One character converted by ${var^^}.
UpperChar(c) ==
  IF \E i \in 1..26 : LowerLetters[i] = c
  THEN UpperLetters[CHOOSE i \in 1..26 : LowerLetters[i] = c]
  ELSE c

\* One character converted by ${var,,}.
LowerChar(c) ==
  IF \E i \in 1..26 : UpperLetters[i] = c
  THEN LowerLetters[CHOOSE i \in 1..26 : UpperLetters[i] = c]
  ELSE c

\* ${s^^}
ToUpper(s) == [i \in 1..Len(s) |-> UpperChar(s[i])]

\* ${s,,}
ToLower(s) == [i \in 1..Len(s) |-> LowerChar(s[i])]

\* n copies of the character c.
Rep(c, n) == [i \in 1..n |-> c]

HasChar(s, c) == \E i \in 1..Len(s) : s[i] = c

FirstIndex(s, c) == CHOOSE i \in 1..Len(s) : s[i] = c /\ \A j \in 1..(i - 1) : s[j] # c

\* ${s/c/rep}: the first occurrence of the character c replaced by rep.
ReplaceFirst(s, c, rep) ==
  IF HasChar(s, c)
  THEN SubSeq(s, 1, FirstIndex(s, c) - 1) \o rep \o SubSeq(s, FirstIndex(s, c) + 1, Len(s))
  ELSE s

EndsWith(s, suf) ==
  /\ Len(s) >= Len(suf)
  /\ SubSeq(s, Len(s) - Len(suf) + 1, Len(s)) = suf

\* ${s%%suf} for a literal suf.
StripSuffix(s, suf) ==
  IF EndsWith(s, suf) THEN SubSeq(s, 1, Len(s) - Len(suf)) ELSE s

\* ------------------------------------------------------------ fixed texts

HEAD == <<"H", "E", "A", "D">>
FindGreenBuild ==
  <<"f", "i", "n", "d", "_", "g", "r", "e", "e", "n", "_", "b", "u", "i", "l", "d">>
BuildversionOpt ==
  <<"-", "-", "b", "u", "i", "l", "d", "v", "e", "r", "s", "i", "o", "n", "=">>
BuildAtHeadOpt ==
  <<"-", "-", "b", "u", "i", "l", "d", "-", "a", "t", "-", "h", "e", "a", "d">>
AsyncOpt == <<"-", "-", "a", "s", "y", "n", "c">>
GoogleDomain == <<"@", "g", "o", "o", "g", "l", "e", ".", "c", "o", "m">>
AtWord == <<"-", "a", "t", "-">>
OfficialWord == <<"o", "f", "f", "i", "c", "i", "a", "l">>
RcWord == <<"r", "c">>
NomockWord == <<"n", "o", "m", "o", "c", "k">>
DashDash == <<"-", "-">>
Dash == <<"-">>

WORKING == <<"W", "O", "R", "K", "I", "N", "G">>
SUCCESS == <<"S", "U", "C", "C", "E", "S", "S">>
FAILURE == <<"F", "A", "I", "L", "U", "R", "E">>
CANCELLED == <<"C", "A", "N", "C", "E", "L", "L", "E", "D">>

\* The statuses a build job has.
JobStatuses == {WORKING, SUCCESS, FAILURE, CANCELLED}

\* $DEFAULT_BUCKET of the library, the project-wide bucket.
DEFAULT_BUCKET ==
  <<"k", "u", "b", "e", "r", "n", "e", "t", "e", "s", "-",
    "r", "e", "l", "e", "a", "s", "e">>

\* ------------------------------------------------------------------ inputs

Branches ==
  { Empty,
    <<"m", "a", "s", "t", "e", "r">>,
    <<"r", "e", "l", "e", "a", "s", "e", "-", "1", ".", "8">> }

\* --buildversion values: none, the documented form (one plus sign), a
\* version with two plus signs, and one with none.
Buildversions ==
  { Empty,
    <<"v", "1", ".", "8", ".", "4", "-", "b", "e", "t", "a", ".", "0", ".", "5", "2",
      "+", "d", "5", "6", "f", "a", "f", "d", "c", "0", "8", "1", "d", "5", "f">>,
    <<"v", "1", ".", "2", "+", "a", "+", "b">>,
    <<"v", "1", ".", "9", ".", "0">> }

\* What `gcloud auth list` may print: nothing, or an account name.
Accounts ==
  { Empty,
    <<"j", "a", "n", "e", "@", "g", "o", "o", "g", "l", "e", ".", "c", "o", "m">>,
    <<"j", "a", "n", "e", "@", "e", "x", "a", "m", "p", "l", "e", ".", "c", "o", "m">>,
    <<"J", "a", "n", "e", ".", "D", "o", "e", "@", "e", "x", "a", "m", "p", "l", "e",
      ".", "c", "o", "m">>,
    <<"a", ".", "b", ".", "c", "@", "g", "o", "o", "g", "l", "e", ".", "c", "o", "m">> }

\* Status filters of `list`: none, and the statuses in several letter cases.
StatusFilters ==
  { Empty,
    <<"w", "o", "r", "k", "i", "n", "g">>,
    WORKING,
    <<"S", "u", "c", "c", "e", "s", "s">>,
    <<"f", "A", "I", "L", "U", "R", "E">>,
    <<"c", "a", "n", "c", "e", "l", "l", "e", "d">> }

\* Characters of the build-id class [a-f0-9-], and characters outside it.
RunChars == {"a", "7", "-"}
PadChars == {"g", "A", "f"}

\* Build ids given on the command line: a run of one character of the
\* class, of length 0, 31, 32 or 33, between two paddings.
BuildIdArgs ==
  { Rep(p, i) \o Rep(h, n) \o Rep(q, j) :
      p \in PadChars, q \in PadChars, h \in RunChars,
      i \in 0..MaxPad, j \in 0..MaxPad,
      n \in {0, IdRunLen - 1, IdRunLen, IdRunLen + 1} }

HexDigits == <<"1", "2", "3", "4", "5", "6", "7", "8", "9", "a", "b", "c", "d", "e", "f">>

\* A build id as the build service makes them: 8-4-4-4-12, the last
\* character telling the jobs of a list apart.
Uuid(k) ==
  Rep("a", 8) \o Dash \o Rep("0", 4) \o Dash \o Rep("4", 4) \o Dash \o Rep("b", 4)
    \o Dash \o Rep("c", 11) \o <<HexDigits[k]>>

\* One line of `gcloud builds list`: the id and the status columns.
HeaderLine == [id |-> <<"I", "D">>, status |-> <<"S", "T", "A", "T", "U", "S">>]

\* The ids of the jobs of a list, by position.
JobIds == [k \in 1..Len(HexDigits) |-> Uuid(k)]

JobLines(f) == [i \in DOMAIN f |-> [id |-> JobIds[i], status |-> f[i]]]

\* The job lists of at most n jobs, most recent first.
JobLists(n) == UNION { { JobLines(f) : f \in [1..k -> JobStatuses] } : k \in 0..n }

\* What `gcloud builds list` prints: nothing when the call fails, else a
\* header line and one line per job.
ListResponses(n) ==
  { [ok |-> FALSE, lines |-> <<>>] }
    \cup { [ok |-> TRUE, lines |-> <<HeaderLine>> \o jl] : jl \in JobLists(n) }

\* The answers of the whole-script model, and of the job-lister model.
ShortListResponses == ListResponses(MaxJobs)
LongListResponses == ListResponses(MaxListJobs)

\* The tags `gcloud builds describe` reports for a job.
JobTags == <<"S", "T", "A", "G", "E">>

\* The ids whose `builds describe` call fails: none, or every second job.
DescribeFailures(lines) ==
  { {}, { lines[i].id : i \in { j \in 1..Len(lines) : j % 2 = 0 } } }

\* What release::kubecross_version prints, and whether it succeeds.
KubeCrossResults ==
  { [ok |-> FALSE, value |-> Empty],
    [ok |-> TRUE, value |-> <<"v", "1", ".", "1", "2">>] }

\* What `gcloud builds submit` answers: a failure, or the new job's id with
\* or without the line naming the log URL.
SubmitResponses ==
  { [ok |-> FALSE, build_id |-> Empty, url |-> FALSE],
    [ok |-> TRUE, build_id |-> Uuid(1), url |-> TRUE],
    [ok |-> TRUE, build_id |-> Uuid(1), url |-> FALSE] }

RELEASE_TOOL_REPO == <<"[", ":", "/", "]", "k", "u", "b", "e", "r", "n", "e", "t", "e", "s", "/", "r", "e", "l", "e", "a", "s", "e">>
RELEASE_TOOL_BRANCH == <<"m", "a", "s", "t", "e", "r">>
StageYaml == "gcb/stage/cloudbuild.yaml"
ReleaseYaml == "gcb/release/cloudbuild.yaml"

\* ------------------------------------------------------------------- state

VARIABLES
  pc,                  \* where MAIN stands
  exitCode,            \* the process's exit status, -1 while it runs
  COMMAND, ARG2,       \* POSITIONAL_ARGV[0] and [1]
  FLAGS,               \* FLAGS_official, _rc, _nomock, _build_at_head, _attended, _buildversion
  GCP_USER, GCP_USER_TAG,
  CFG,                 \* the globals MAIN derives from the flags
  DISK_SIZE, YAML_FILE, RELEASE_BRANCH, KUBE_CROSS_VERSION,
  buildsList,          \* the last answer of `gcloud builds list`
  rows,                \* the rows list_jobs printed
  calls,               \* the external commands run and prompts made, in order
  out,                 \* the messages printed, in order
  heap,                \* the Go objects allocated: heap[p] is what pointer p points to
  receiver,            \* the *Config DeepCopy is called on
  result,              \* the *Config DeepCopy returned
  given,               \* the configuration the receiver was made of
  gpc                  \* where the user of the krel package stands

\* The state of the krel package's user.
goVars == <<heap, receiver, result, given, gpc>>

\* The state of the script.
scriptVars ==
  <<pc, exitCode, COMMAND, ARG2, FLAGS, GCP_USER, GCP_USER_TAG, CFG, DISK_SIZE,
    YAML_FILE, RELEASE_BRANCH, KUBE_CROSS_VERSION, buildsList, rows, calls, out>>

vars == <<scriptVars, goVars>>

\* The nil pointer and the nil slice.
Nil == 0

\* A list of the abstract configuration: nil, or its elements in order.
NilList == [nil |-> TRUE, elems |-> <<>>]
List(elems) == [nil |-> FALSE, elems |-> elems]

\* The script does not use the krel package.
GoIdle ==
  /\ heap = <<>>
  /\ receiver = Nil
  /\ result = Nil
  /\ given = [nil |-> TRUE]
  /\ gpc = "idle"

Call(cmd, arg) == [cmd |-> cmd, arg |-> arg]

Called(cmd) == \E i \in 1..Len(calls) : calls[i].cmd = cmd

Printed(msg) == \E i \in 1..Len(out) : out[i] = msg

NoFlags ==
  [official |-> FALSE, rc |-> FALSE, nomock |-> FALSE, build_at_head |-> FALSE,
   attended |-> FALSE, buildversion |-> Empty]

UnsetCFG ==
  [ASYNC |-> Empty, OFFICIAL_TAG |-> Empty, OFFICIAL |-> Empty, RC_TAG |-> Empty,
   RC |-> Empty, BUILD_POINT |-> Empty, BUILD_AT_HEAD |-> Empty,
   NOMOCK_TAG |-> Empty, NOMOCK |-> Empty, USER_BUCKET |-> Empty,
   BUILDVERSION |-> Empty]

\* The invocations of the SYNOPSIS: the reporting commands take an optional
\* argument and --nomock, the submitting commands a branch and every flag.
Invocations ==
  { [cmd |-> "list", arg |-> a, flags |-> [NoFlags EXCEPT !.nomock = n]] :
      a \in StatusFilters, n \in BOOLEAN }
  \cup
  { [cmd |-> c, arg |-> Empty, flags |-> [NoFlags EXCEPT !.nomock = n]] :
      c \in {"staged", "promote"}, n \in BOOLEAN }
  \cup
  { [cmd |-> c, arg |-> a, flags |-> [NoFlags EXCEPT !.nomock = n]] :
      c \in {"stream", "tail"}, a \in BuildIdArgs, n \in BOOLEAN }
  \cup
  { [cmd |-> c, arg |-> b, flags |-> f] :
      c \in {"stage", "release"}, b \in Branches,
      f \in [official : BOOLEAN, rc : BOOLEAN, nomock : BOOLEAN,
             build_at_head : BOOLEAN, attended : BOOLEAN,
             buildversion : Buildversions] }

Start(inv) ==
  /\ pc = "preflight"
  /\ exitCode = -1
  /\ COMMAND = inv.cmd
  /\ ARG2 = inv.arg
  /\ FLAGS = inv.flags
  /\ GCP_USER = Empty
  /\ GCP_USER_TAG = Empty
  /\ CFG = UnsetCFG
  /\ DISK_SIZE = 0
  /\ YAML_FILE = ""
  /\ RELEASE_BRANCH = Empty
  /\ KUBE_CROSS_VERSION = Empty
  /\ buildsList = [ok |-> FALSE, lines |-> <<>>]
  /\ rows = <<>>
  /\ calls = <<>>
  /\ out = <<>>
  /\ GoIdle

Init == \E inv \in Invocations : Start(inv)

\* common::cleanexit: exit ${1:-0}
cleanexit(code) ==
  /\ pc' = "done"
  /\ exitCode' = code

\* -------------------------------------------------------------------- MAIN

\* The pre-flight checks: required packages, the repository's state, the
\* cloud binaries.  Any of them failing ends the run with status 1.
Preflight ==
  /\ pc = "preflight"
  /\ \E failed \in {"none", "check_packages", "repo_state", "set_cloud_binaries"} :
       IF failed = "none"
       THEN /\ pc' = "user"
            /\ UNCHANGED <<exitCode, out>>
       ELSE /\ out' = out \o <<"Exiting...">>
            /\ cleanexit(1)
  /\ UNCHANGED <<goVars, COMMAND, ARG2, FLAGS, GCP_USER, GCP_USER_TAG, CFG, DISK_SIZE,
                 YAML_FILE, RELEASE_BRANCH, KUBE_CROSS_VERSION, buildsList, rows,
                 calls>>

\* The operator tag: the lower-cased account with @google.com stripped, the
\* first @ made -at- and the first dot made a hyphen.
UserTag(account) ==
  ReplaceFirst(ReplaceFirst(StripSuffix(ToLower(account), GoogleDomain), "@", AtWord),
               ".", Dash)

\* DISK_SIZE="300", then the account query and the tag made of its answer.
GcpUser ==
  /\ pc = "user"
  /\ \E account \in Accounts :
       /\ GCP_USER' = ToLower(account)
       /\ GCP_USER_TAG' = UserTag(account)
  /\ DISK_SIZE' = StageDiskSize
  /\ calls' = Append(calls, Call("auth_list", Empty))
  /\ pc' = "configure"
  /\ UNCHANGED <<goVars, exitCode, COMMAND, ARG2, FLAGS, CFG, YAML_FILE, RELEASE_BRANCH,
                 KUBE_CROSS_VERSION, buildsList, rows, out>>

\* The flags' conflict left unchecked.
ConflictingFlagsIgnored(flags) == FALSE

\* A build cannot be a release candidate and official at the same time.
ConflictingFlags(flags) == flags.official /\ flags.rc

\* BUILD_POINT with --build-at-head taking precedence over the buildversion.
BuildPointHeadFirst(flags) ==
  IF flags.build_at_head THEN HEAD
  ELSE IF flags.buildversion # Empty THEN ReplaceFirst(flags.buildversion, "+", Dash)
  ELSE FindGreenBuild

\* BUILD_POINT: the buildversion with its first plus sign made a hyphen,
\* else HEAD under --build-at-head, else find_green_build.
BuildPoint(flags) ==
  LET at_head == IF flags.build_at_head THEN HEAD ELSE Empty
  IN  IF flags.buildversion # Empty
      THEN ReplaceFirst(flags.buildversion, "+", Dash)
      ELSE IF at_head # Empty THEN at_head ELSE FindGreenBuild

\* The derived globals with BUILDVERSION made of the tag-safe build point
\* instead of the buildversion as given.
DerivedTagSafeVersion(flags, tag) ==
  [ASYNC |-> IF flags.attended THEN Empty ELSE AsyncOpt,
   OFFICIAL_TAG |-> IF flags.official THEN OfficialWord ELSE Empty,
   OFFICIAL |-> IF flags.official THEN DashDash \o OfficialWord ELSE Empty,
   RC_TAG |-> IF ~flags.official /\ flags.rc THEN RcWord ELSE Empty,
   RC |-> IF ~flags.official /\ flags.rc THEN DashDash \o RcWord ELSE Empty,
   BUILD_POINT |-> BuildPoint(flags),
   BUILD_AT_HEAD |-> IF flags.build_at_head THEN BuildAtHeadOpt ELSE Empty,
   NOMOCK_TAG |-> IF flags.nomock THEN NomockWord ELSE Empty,
   NOMOCK |-> IF flags.nomock THEN DashDash \o NomockWord ELSE Empty,
   USER_BUCKET |-> IF flags.nomock THEN Empty ELSE DEFAULT_BUCKET \o Dash \o tag,
   BUILDVERSION |-> IF flags.buildversion # Empty
                    THEN BuildversionOpt \o BuildPoint(flags) ELSE Empty]

\* The globals MAIN derives from the flags and the operator tag.
Derived(flags, tag) ==
  [ASYNC |-> IF flags.attended THEN Empty ELSE AsyncOpt,
   OFFICIAL_TAG |-> IF flags.official THEN OfficialWord ELSE Empty,
   OFFICIAL |-> IF flags.official THEN DashDash \o OfficialWord ELSE Empty,
   RC_TAG |-> IF ~flags.official /\ flags.rc THEN RcWord ELSE Empty,
   RC |-> IF ~flags.official /\ flags.rc THEN DashDash \o RcWord ELSE Empty,
   BUILD_POINT |-> BuildPoint(flags),
   BUILD_AT_HEAD |-> IF flags.build_at_head THEN BuildAtHeadOpt ELSE Empty,
   NOMOCK_TAG |-> IF flags.nomock THEN NomockWord ELSE Empty,
   NOMOCK |-> IF flags.nomock THEN DashDash \o NomockWord ELSE Empty,
   USER_BUCKET |-> IF flags.nomock THEN Empty ELSE DEFAULT_BUCKET \o Dash \o tag,
   BUILDVERSION |-> IF flags.buildversion # Empty
                    THEN BuildversionOpt \o flags.buildversion ELSE Empty]

\* The flags are checked and the globals derived from them.
Configure ==
  /\ pc = "configure"
  /\ IF ConflictingFlags(FLAGS)
     THEN /\ out' = out \o <<"A release cannot be an RC and official", "Exiting...">>
          /\ cleanexit(1)
          /\ UNCHANGED CFG
     ELSE /\ CFG' = Derived(FLAGS, GCP_USER_TAG)
          /\ pc' = "dispatch"
          /\ UNCHANGED <<exitCode, out>>
  /\ UNCHANGED <<goVars, COMMAND, ARG2, FLAGS, GCP_USER, GCP_USER_TAG, DISK_SIZE, YAML_FILE,
                 RELEASE_BRANCH, KUBE_CROSS_VERSION, buildsList, rows, calls>>

\* ------------------------------------------------------------- list_jobs

\* sed -n '2,$p': the lines from the second on.
FromLine2(lines) == IF lines = <<>> THEN <<>> ELSE Tail(lines)

\* [[ $status != "${state:-$status}" ]] && continue
StatusSkipped(status, state) == status # (IF state # Empty THEN state ELSE status)

\* The loop left one row late: ((counter>count)) && break.
CountReachedLate(counter) == counter > ListCount

\* ((counter>=count)) && break
CountReached(counter) == counter >= ListCount

\* The while loop of list_jobs: the rows printed for `lines`, `counter`
\* rows having been printed before.
RECURSIVE ListLoop(_, _, _, _)
ListLoop(lines, state, counter, failing) ==
  IF lines = <<>> THEN <<>>
  ELSE LET job == Head(lines)
           row == [tags |-> IF job.id \in failing THEN Empty ELSE JobTags,
                   s |-> SubSeq(job.status, 1, 1),
                   id |-> job.id]
       IN  IF StatusSkipped(job.status, state)
           THEN ListLoop(Tail(lines), state, counter, failing)
           ELSE <<row>> \o (IF CountReached(counter + 1) THEN <<>>
                            ELSE ListLoop(Tail(lines), state, counter + 1, failing))

\* The rows list_jobs prints for the filter `state`, the build service
\* having answered `lines` and the describe calls of `failing` failing.
list_jobs(state, lines, failing) == ListLoop(FromLine2(lines), ToUpper(state), 0, failing)

\* case list: list_jobs $ARG2, then common::exit 0, the jobs drawn from
\* `responses`.
ListOf(responses) ==
  /\ pc = "dispatch"
  /\ COMMAND = "list"
  /\ \E resp \in responses :
       \E failing \in DescribeFailures(FromLine2(resp.lines)) :
         LET printed == list_jobs(ARG2, resp.lines, failing)
         IN  /\ buildsList' = resp
             /\ rows' = printed
             /\ calls' = calls \o <<Call("builds_list", Empty)>>
                           \o [i \in 1..Len(printed) |-> Call("builds_describe", printed[i].id)]
  /\ out' = Append(out, "Last jobs:")
  /\ cleanexit(0)
  /\ UNCHANGED <<goVars, COMMAND, ARG2, FLAGS, GCP_USER, GCP_USER_TAG, CFG, DISK_SIZE,
                 YAML_FILE, RELEASE_BRANCH, KUBE_CROSS_VERSION>>

CaseList == ListOf(ShortListResponses)

\* ------------------------------------------------------ list_staged_builds

\* for bucket in $BUCKET $USER_BUCKET: an unset USER_BUCKET is no word.
StagingBuckets == <<DEFAULT_BUCKET>> \o (IF CFG.USER_BUCKET = Empty THEN <<>> ELSE <<CFG.USER_BUCKET>>)

\* case staged: list_staged_builds, then common::exit 0.
CaseStaged ==
  /\ pc = "dispatch"
  /\ COMMAND = "staged"
  /\ calls' = calls \o <<Call("last_releases", Empty)>>
                \o [i \in 1..Len(StagingBuckets) |-> Call("gsutil_ls", StagingBuckets[i])]
  /\ out' = out \o <<"Last published releases by branch:">>
               \o [i \in 1..Len(StagingBuckets) |-> "Staged builds on bucket:"]
  /\ cleanexit(0)
  /\ UNCHANGED <<goVars, COMMAND, ARG2, FLAGS, GCP_USER, GCP_USER_TAG, CFG, DISK_SIZE,
                 YAML_FILE, RELEASE_BRANCH, KUBE_CROSS_VERSION, buildsList, rows>>

\* ---------------------------------------------------------- stream_job_log

\* awk '/WORKING/{print $1;exit}': the id of the first line that reads
\* WORKING, nothing when there is none.
FirstWorking(lines) ==
  IF \E i \in 1..Len(lines) : lines[i].status = WORKING
  THEN lines[CHOOSE i \in 1..Len(lines) :
               /\ lines[i].status = WORKING
               /\ \A j \in 1..(i - 1) : lines[j].status # WORKING].id
  ELSE Empty

\* The characters of the class [a-f0-9-].
IdClass == {"a", "b", "c", "d", "e", "f", "0", "1", "2", "3", "4", "5", "6", "7", "8", "9", "-"}

\* The pattern anchored at both ends: ^[a-f0-9-]{32}$.
ValidBuildIdAnchored(id) ==
  /\ Len(id) = IdRunLen
  /\ \A i \in 1..Len(id) : id[i] \in IdClass

\* [[ $build_id =~ [a-f0-9-]{32} ]]: an unanchored match, so the id holds
\* 32 characters of the class in a row somewhere.
ValidBuildId(id) ==
  \E i \in 1..(Len(id) - IdRunLen + 1) :
    \A k \in 0..(IdRunLen - 1) : id[i + k] \in IdClass

\* case stream|tail: stream_job_log $ARG2, then common::exit 0 whatever
\* stream_job_log returned.
CaseStream ==
  /\ pc = "dispatch"
  /\ COMMAND \in {"stream", "tail"}
  /\ \E resp \in ShortListResponses :
       LET listed == ARG2 = Empty
           build_id == IF listed THEN FirstWorking(resp.lines) ELSE ARG2
           looked == IF listed THEN <<Call("builds_list", Empty)>> ELSE <<>>
       IN  /\ buildsList' = IF listed THEN resp ELSE buildsList
           /\ IF ValidBuildId(build_id)
              THEN /\ out' = Append(out, "Waiting for GCP to initiate stream...")
                   /\ calls' = calls \o looked \o <<Call("builds_log", build_id)>>
              ELSE /\ out' = Append(out, "Invalid/Null build id or no running jobs found.")
                   /\ calls' = calls \o looked
  /\ cleanexit(0)
  /\ UNCHANGED <<goVars, COMMAND, ARG2, FLAGS, GCP_USER, GCP_USER_TAG, CFG, DISK_SIZE,
                 YAML_FILE, RELEASE_BRANCH, KUBE_CROSS_VERSION, rows>>

\* ------------------------------------------------------------- submit_it

\* The --substitutions of the submission, in the order submit_it writes
\* them; _BUILD_AT_HEAD is written for `stage` alone.
Substitutions(command, branch, kcv) ==
  << <<"_OFFICIAL_TAG", CFG.OFFICIAL_TAG>>,
     <<"_NOMOCK_TAG", CFG.NOMOCK_TAG>>,
     <<"_RC_TAG", CFG.RC_TAG>>,
     <<"_BUILD_POINT", CFG.BUILD_POINT>>,
     <<"_GCP_USER_TAG", GCP_USER_TAG>> >>
  \o (IF command = "stage" THEN << <<"_BUILD_AT_HEAD", CFG.BUILD_AT_HEAD>> >> ELSE <<>>)
  \o << <<"_RELEASE_BRANCH", branch>>,
        <<"_OFFICIAL", CFG.OFFICIAL>>,
        <<"_RC", CFG.RC>>,
        <<"_NOMOCK", CFG.NOMOCK>>,
        <<"_BUILDVERSION", CFG.BUILDVERSION>>,
        <<"_RELEASE_TOOL_REPO", RELEASE_TOOL_REPO>>,
        <<"_RELEASE_TOOL_BRANCH", RELEASE_TOOL_BRANCH>>,
        <<"_KUBE_CROSS_VERSION", kcv>> >>

\* What a handler did: the calls it made, the messages it printed, the
\* status it ended with and the KUBE_CROSS_VERSION it left.
Did(made, printed, code, kcv) == [calls |-> made, out |-> printed, code |-> code, kcv |-> kcv]

\* submit_it: the job is submitted; a failure exits with 1, a success
\* prints how to follow the job.
submit_it(command, branch, yaml, disk, kcv, resp) ==
  LET submit == Call("builds_submit",
                     [config |-> yaml, async |-> CFG.ASYNC, disk_size |-> disk,
                      substitutions |-> Substitutions(command, branch, kcv)])
  IN  IF ~resp.ok
      THEN Did(<<submit>>, <<"FAILED: Job was not submitted.  Details:">>, 1, kcv)
      ELSE Did(<<submit>>,
               <<"submitted successfully.", "To view last build:",
                 "To view this specific build:">>
                 \o (IF resp.url THEN <<"BUILD_URL">> ELSE <<"">>),
               0, kcv)

\* The branch left unchecked.
BranchNeverUnset(branch) == FALSE

\* The buildversion left unchecked.
BuildversionNeverMissing(flags) == FALSE

\* [[ -z $RELEASE_BRANCH ]]
BranchUnset(branch) == branch = Empty

\* [[ -z $FLAGS_buildversion ]]
BuildversionMissing(flags) == flags.buildversion = Empty

\* Two handlers' doings, one after the other.
Then(a, b) == Did(a.calls \o b.calls, a.out \o b.out, b.code, b.kcv)

\* stage_it: the branch is checked, the cross version looked up, the job
\* submitted.  A `return 1` reaches the `|| common::exit 1` of MAIN.
stage_it(branch, yaml, disk, kc, resp) ==
  IF BranchUnset(branch)
  THEN Did(<<>>, <<"Branch not set.  Can't continue", "Exiting...">>, 1, KUBE_CROSS_VERSION)
  ELSE IF ~kc.ok
  THEN Did(<<Call("kubecross_version", branch)>>, <<"Exiting...">>, 1, kc.value)
  ELSE Then(Did(<<Call("kubecross_version", branch)>>, <<>>, 0, kc.value),
            submit_it("stage", branch, yaml, disk, kc.value, resp))

\* release_it: as stage_it, and the buildversion is checked after the
\* cross version has been looked up.
release_it(branch, yaml, disk, kc, resp) ==
  IF BranchUnset(branch)
  THEN Did(<<>>, <<"Branch not set.  Can't continue", "Exiting...">>, 1, KUBE_CROSS_VERSION)
  ELSE IF ~kc.ok
  THEN Did(<<Call("kubecross_version", branch)>>, <<"Exiting...">>, 1, kc.value)
  ELSE IF BuildversionMissing(FLAGS)
  THEN Did(<<Call("kubecross_version", branch)>>,
           <<"--buildversion=<staged build> required for 'release' jobs.", "Exiting...">>,
           1, kc.value)
  ELSE Then(Did(<<Call("kubecross_version", branch)>>, <<>>, 0, kc.value),
            submit_it("release", branch, yaml, disk, kc.value, resp))

\* case stage: YAML_FILE and RELEASE_BRANCH are set, then stage_it.
CaseStage ==
  /\ pc = "dispatch"
  /\ COMMAND = "stage"
  /\ YAML_FILE' = StageYaml
  /\ RELEASE_BRANCH' = ARG2
  /\ \E kc \in KubeCrossResults, resp \in SubmitResponses :
       LET did == stage_it(ARG2, StageYaml, DISK_SIZE, kc, resp)
       IN  /\ calls' = calls \o did.calls
           /\ out' = out \o did.out
           /\ KUBE_CROSS_VERSION' = did.kcv
           /\ cleanexit(did.code)
  /\ UNCHANGED <<goVars, COMMAND, ARG2, FLAGS, GCP_USER, GCP_USER_TAG, CFG, DISK_SIZE,
                 buildsList, rows>>

\* The confirmation asked in mock mode instead.
ConfirmationAskedInMock(flags) == ~flags.nomock

\* if ((FLAGS_nomock)): a release asks for confirmation under --nomock.
ConfirmationAsked(flags) == flags.nomock

\* common::askyorn "Really submit a --nomock release job against the
\* $RELEASE_BRANCH branch", and the operator's answer.
Asked(branch, yes) == [branch |-> branch, answer |-> yes]

\* What the release case does after its assignments: the confirmation
\* asked under --nomock and answered `yes`, then release_it.
release_case(branch, yes, kc, resp) ==
  IF ConfirmationAsked(FLAGS)
  THEN IF ~yes
       THEN Did(<<Call("askyorn", Asked(branch, yes))>>, <<"ATTENTION!!", "Exiting...">>, 1,
                KUBE_CROSS_VERSION)
       ELSE Then(Did(<<Call("askyorn", Asked(branch, yes))>>, <<"ATTENTION!!">>, 0,
                     KUBE_CROSS_VERSION),
                 release_it(branch, ReleaseYaml, ReleaseDiskSize, kc, resp))
  ELSE release_it(branch, ReleaseYaml, ReleaseDiskSize, kc, resp)

\* case release: DISK_SIZE, YAML_FILE and RELEASE_BRANCH are set, the
\* confirmation is asked under --nomock, then release_it.
CaseRelease ==
  /\ pc = "dispatch"
  /\ COMMAND = "release"
  /\ DISK_SIZE' = ReleaseDiskSize
  /\ YAML_FILE' = ReleaseYaml
  /\ RELEASE_BRANCH' = ARG2
  /\ \E yes \in BOOLEAN, kc \in KubeCrossResults, resp \in SubmitResponses :
       LET did == release_case(ARG2, yes, kc, resp)
       IN  /\ calls' = calls \o did.calls
           /\ out' = out \o did.out
           /\ KUBE_CROSS_VERSION' = did.kcv
           /\ cleanexit(did.code)
  /\ UNCHANGED <<goVars, COMMAND, ARG2, FLAGS, GCP_USER, GCP_USER_TAG, CFG, buildsList, rows>>

\* case *: an unknown subcommand ends the run with status 1.
CaseUnknown ==
  /\ pc = "dispatch"
  /\ COMMAND \notin {"list", "staged", "stream", "tail", "stage", "release"}
  /\ out' = Append(out, "Unknown option.  Exiting...")
  /\ cleanexit(1)
  /\ UNCHANGED <<goVars, COMMAND, ARG2, FLAGS, GCP_USER, GCP_USER_TAG, CFG, DISK_SIZE,
                 YAML_FILE, RELEASE_BRANCH, KUBE_CROSS_VERSION, buildsList, rows,
                 calls>>

Next ==
  \/ Preflight
  \/ GcpUser
  \/ Configure
  \/ CaseList
  \/ CaseStaged
  \/ CaseStream
  \/ CaseStage
  \/ CaseRelease
  \/ CaseUnknown

Spec == Init /\ [][Next]_vars

\* ------------------------------------------------------ the job lister alone

\* `list` invoked with a status filter and no flag, as MAIN has
\* configured it for the account jane@google.com when it reaches the case.
InitList ==
  \E filter \in StatusFilters :
    LET account == <<"j", "a", "n", "e", "@", "g", "o", "o", "g", "l", "e", ".", "c", "o", "m">>
    IN  /\ pc = "dispatch"
        /\ exitCode = -1
        /\ COMMAND = "list"
        /\ ARG2 = filter
        /\ FLAGS = NoFlags
        /\ GCP_USER = ToLower(account)
        /\ GCP_USER_TAG = UserTag(account)
        /\ CFG = Derived(NoFlags, UserTag(account))
        /\ DISK_SIZE = StageDiskSize
        /\ YAML_FILE = ""
        /\ RELEASE_BRANCH = Empty
        /\ KUBE_CROSS_VERSION = Empty
        /\ buildsList = [ok |-> FALSE, lines |-> <<>>]
        /\ rows = <<>>
        /\ calls = <<Call("auth_list", Empty)>>
        /\ out = <<>>
        /\ GoIdle

CaseListLong == ListOf(LongListResponses)

NextList == CaseListLong

SpecList == InitList /\ [][NextList]_vars

\* ------------------------------------------- the krel package's DeepCopy
\* (src/apis/krel/v1alpha1/zz_generated.deepcopy.go)
\*
\* A pointer is an index of `heap`, Nil is the nil pointer.  A slice is the
\* pointer to its backing array (its length is the array's), Nil for the nil
\* slice; an empty slice that is not nil points to an array of no elements.
\* An array on the heap is [elems |-> ...]; a Config, and each Binary and
\* Image inside an array, is a record of its fields.  Of the scalar fields of
\* Binary and Image the model keeps the name.

MaxEntries == 2

\* new(T) and make([]T, n): the object takes the next free place.
Alloc(h, obj) == [heap |-> Append(h, obj), ptr |-> Len(h) + 1]

\* The zero values new and make fill their objects with.
ZeroBinary == [Name |-> "", Platforms |-> Nil]

ZeroImage == [Name |-> "", PlatformType |-> Nil]

ZeroConfig == [TypeMeta |-> "", Binaries |-> Nil, Images |-> Nil]

\* make([]T, n) with zero value z.
Make(h, n, z) == Alloc(h, [elems |-> [j \in 1..n |-> z]])

\* The built-in copy(dst, src): the first min(len) elements of src.
Copy(dst, src) == [j \in 1..Len(dst) |-> IF j <= Len(src) THEN src[j] ELSE dst[j]]

\* A DeepCopyInto that leaves the platform list to the struct assignment.
BinaryShallowCopyInto(h, in) == [heap |-> h, val |-> in]

\* func (in *Binary) DeepCopyInto(out *Binary): `in` is the Binary read
\* through the pointer, val is what is left in *out.
BinaryDeepCopyInto(h, in) ==
  LET assigned == in
  IN IF in.Platforms # Nil
       THEN LET made == Make(h, Len(h[in.Platforms].elems), "")
                filled == Copy(made.heap[made.ptr].elems, h[in.Platforms].elems)
            IN [heap |-> [made.heap EXCEPT ![made.ptr].elems = filled],
                val |-> [assigned EXCEPT !.Platforms = made.ptr]]
       ELSE [heap |-> h, val |-> assigned]

\* func (in *Image) DeepCopyInto(out *Image)
ImageDeepCopyInto(h, in) ==
  LET assigned == in
  IN IF in.PlatformType # Nil
       THEN LET made == Make(h, Len(h[in.PlatformType].elems), "")
                filled == Copy(made.heap[made.ptr].elems, h[in.PlatformType].elems)
            IN [heap |-> [made.heap EXCEPT ![made.ptr].elems = filled],
                val |-> [assigned EXCEPT !.PlatformType = made.ptr]]
       ELSE [heap |-> h, val |-> assigned]

\* for i := range *in { (*in)[i].DeepCopyInto(&(*out)[i]) } over the
\* Binaries, from index i on.
RECURSIVE CopyBinaries(_, _, _, _)
CopyBinaries(h, inArr, outArr, i) ==
  IF i > Len(h[inArr].elems)
    THEN h
    ELSE LET d == BinaryDeepCopyInto(h, h[inArr].elems[i])
         IN CopyBinaries([d.heap EXCEPT ![outArr].elems[i] = d.val], inArr, outArr, i + 1)

\* The same loop over the Images.
RECURSIVE CopyImages(_, _, _, _)
CopyImages(h, inArr, outArr, i) ==
  IF i > Len(h[inArr].elems)
    THEN h
    ELSE LET d == ImageDeepCopyInto(h, h[inArr].elems[i])
         IN CopyImages([d.heap EXCEPT ![outArr].elems[i] = d.val], inArr, outArr, i + 1)

\* func (in *Config) DeepCopyInto(out *Config), with dst for out: the heap it
\* leaves.
ConfigDeepCopyInto(h, in, dst) ==
  LET assigned == [h EXCEPT ![dst] = h[in]]
      meta == [assigned EXCEPT ![dst].TypeMeta = assigned[in].TypeMeta]
      binaries ==
        IF meta[in].Binaries # Nil
          THEN LET made == Make(meta, Len(meta[meta[in].Binaries].elems), ZeroBinary)
               IN CopyBinaries([made.heap EXCEPT ![dst].Binaries = made.ptr],
                               meta[in].Binaries, made.ptr, 1)
          ELSE meta
  IN IF binaries[in].Images # Nil
       THEN LET made == Make(binaries, Len(binaries[binaries[in].Images].elems), ZeroImage)
            IN CopyImages([made.heap EXCEPT ![dst].Images = made.ptr],
                          binaries[in].Images, made.ptr, 1)
       ELSE binaries

\* func (in *Config) DeepCopy() *Config
ConfigDeepCopy(h, in) ==
  IF in = Nil
    THEN [heap |-> h, ptr |-> Nil]
    ELSE LET new == Alloc(h, ZeroConfig)
         IN [heap |-> ConfigDeepCopyInto(new.heap, in, new.ptr), ptr |-> new.ptr]

\* ---- the configurations DeepCopy is called on

\* The platform lists of an entry: nil, empty, and two orders of two.
PlatformLists ==
  { NilList, List(<<>>), List(<<"linux/amd64", "darwin/amd64">>),
    List(<<"darwin/amd64", "linux/amd64">>) }

Binaries == { [Name |-> "kubectl", Platforms |-> p] : p \in PlatformLists }

Images == { [Name |-> "kube-proxy", PlatformType |-> p] : p \in PlatformLists }

\* The lists of at most MaxEntries entries, and the nil list.
ListsOf(entries) ==
  {NilList} \cup { List(l) : l \in UNION { [1..n -> entries] : n \in 0..MaxEntries } }

Configs ==
  { [TypeMeta |-> "krel/v1alpha1", Binaries |-> b, Images |-> i] :
      b \in ListsOf(Binaries), i \in ListsOf(Images) }

\* No Config: the receiver is nil.
NoConfig == [nil |-> TRUE]

\* A list of scalars laid out on the heap.
LaySlice(h, list) ==
  IF list.nil THEN [heap |-> h, ptr |-> Nil] ELSE Alloc(h, [elems |-> list.elems])

\* The entries from index i on laid out, each with its platform list (the
\* field named `field`) in an array of its own; val is the entries as stored.
RECURSIVE LayEntries(_, _, _, _)
LayEntries(h, entries, field, i) ==
  IF i > Len(entries)
    THEN [heap |-> h, val |-> <<>>]
    ELSE LET platforms == LaySlice(h, entries[i][field])
             rest == LayEntries(platforms.heap, entries, field, i + 1)
         IN [heap |-> rest.heap,
             val |-> <<[entries[i] EXCEPT ![field] = platforms.ptr]>> \o rest.val]

\* A list of entries laid out.
LayList(h, list, field) ==
  IF list.nil
    THEN [heap |-> h, ptr |-> Nil]
    ELSE LET laid == LayEntries(h, list.elems, field, 1)
         IN Alloc(laid.heap, [elems |-> laid.val])

\* A configuration laid out; ptr is the *Config.
LayConfig(h, config) ==
  LET binaries == LayList(h, config.Binaries, "Platforms")
      images == LayList(binaries.heap, config.Images, "PlatformType")
  IN Alloc(images.heap,
           [TypeMeta |-> config.TypeMeta, Binaries |-> binaries.ptr, Images |-> images.ptr])

\* ---- what a *Config holds, read back through its pointers

SliceValue(h, s) == IF s = Nil THEN NilList ELSE List(h[s].elems)

EntryValue(h, entry, field) == [entry EXCEPT ![field] = SliceValue(h, entry[field])]

EntriesValue(h, s, field) ==
  IF s = Nil
    THEN NilList
    ELSE List([i \in 1..Len(h[s].elems) |-> EntryValue(h, h[s].elems[i], field)])

ConfigValue(h, p) ==
  [TypeMeta |-> h[p].TypeMeta,
   Binaries |-> EntriesValue(h, h[p].Binaries, "Platforms"),
   Images |-> EntriesValue(h, h[p].Images, "PlatformType")]

\* The lists of a *Config and the name of the platform field of their entries.
EntryLists(h, p) ==
  { l \in {[arr |-> h[p].Binaries, field |-> "Platforms"],
           [arr |-> h[p].Images, field |-> "PlatformType"]} : l.arr # Nil }

\* The backing arrays of the platform lists of the entries of a *Config.
PlatformArrays(h, p) ==
  UNION { { h[l.arr].elems[i][l.field] : i \in 1..Len(h[l.arr].elems) } :
            l \in EntryLists(h, p) } \ {Nil}

\* ---- the user of the package: copy a configuration, then write to the copy

\* The script is not running.
ScriptIdle ==
  /\ pc = "done"
  /\ exitCode = 0
  /\ COMMAND = ""
  /\ ARG2 = Empty
  /\ FLAGS = NoFlags
  /\ GCP_USER = Empty
  /\ GCP_USER_TAG = Empty
  /\ CFG = UnsetCFG
  /\ DISK_SIZE = 0
  /\ YAML_FILE = ""
  /\ RELEASE_BRANCH = Empty
  /\ KUBE_CROSS_VERSION = Empty
  /\ buildsList = [ok |-> FALSE, lines |-> <<>>]
  /\ rows = <<>>
  /\ calls = <<>>
  /\ out = <<>>

InitCopy ==
  /\ ScriptIdle
  /\ \E config \in Configs \cup {NoConfig} :
       LET laid == IF config = NoConfig
                     THEN [heap |-> <<>>, ptr |-> Nil]
                     ELSE LayConfig(<<>>, config)
       IN /\ heap = laid.heap
          /\ receiver = laid.ptr
          /\ given = config
  /\ result = Nil
  /\ gpc = "start"

\* result := receiver.DeepCopy()
DeepCopy ==
  /\ gpc = "start"
  /\ LET copied == ConfigDeepCopy(heap, receiver)
     IN /\ heap' = copied.heap
        /\ result' = copied.ptr
  /\ gpc' = "copied"
  /\ UNCHANGED <<scriptVars, receiver, given>>

\* result.Binaries[i].Name = "changed", or the same of an Image
SetName ==
  /\ gpc = "copied"
  /\ result # Nil
  /\ \E l \in EntryLists(heap, result) :
       \E i \in 1..Len(heap[l.arr].elems) :
         heap' = [heap EXCEPT ![l.arr].elems[i].Name = "changed"]
  /\ gpc' = "mutated"
  /\ UNCHANGED <<scriptVars, receiver, result, given>>

\* result.Binaries[i].Platforms[j] = "changed", or the same of an Image's
\* PlatformType
SetPlatform ==
  /\ gpc = "copied"
  /\ result # Nil
  /\ \E a \in PlatformArrays(heap, result) :
       \E j \in 1..Len(heap[a].elems) :
         heap' = [heap EXCEPT ![a].elems[j] = "changed"]
  /\ gpc' = "mutated"
  /\ UNCHANGED <<scriptVars, receiver, result, given>>

NextCopy == DeepCopy \/ SetName \/ SetPlatform

SpecCopy == InitCopy /\ [][NextCopy]_vars

\* ------------------------------------------------------------------ claims

Submitting == COMMAND \in {"stage", "release"}

Streaming == COMMAND \in {"stream", "tail"}

BuildversionRequiredMsg == "--buildversion=<staged build> required for 'release' jobs."

BranchNotSetMsg == "Branch not set.  Can't continue"

InvalidIdMsg == "Invalid/Null build id or no running jobs found."

ConflictMsg == "A release cannot be an RC and official"

LastCall == IF calls = <<>> THEN Call("none", Empty) ELSE calls[Len(calls)]

\* The run is over and had reached the case statement: the pre-flight
\* checks passed and the flags did not conflict.
Dispatched == pc = "done" /\ Called("auth_list") /\ ~Printed(ConflictMsg)

\* C1, as the claim states it: when a release aborts for want of a
\* buildversion, no external call has been made, the version-compatibility
\* lookup included.
C1_AbortsBeforeAnyCall ==
  (COMMAND = "release" /\ Printed(BuildversionRequiredMsg)) => calls = <<>>

\* C1, amended: a release without a buildversion never submits a job and
\* ends with status 1; the buildversion is found missing only after the
\* account query and the version-compatibility lookup have been made; and
\* a stage never aborts on that ground.
C1_ReleaseNeedsBuildversion ==
  /\ (COMMAND = "release" /\ FLAGS.buildversion = Empty) =>
       /\ ~Called("builds_submit")
       /\ pc = "done" => exitCode = 1
  /\ Printed(BuildversionRequiredMsg) =>
       /\ COMMAND = "release"
       /\ FLAGS.buildversion = Empty
       /\ Called("auth_list")
       /\ LastCall.cmd = "kubecross_version"

C1_Witness ==
  /\ COMMAND = "release"
  /\ FLAGS.buildversion = Empty
  /\ pc = "done"
  /\ exitCode = 1
  /\ Printed(BuildversionRequiredMsg)
  /\ LastCall.cmd = "kubecross_version"

\* C2, as the claim states it: a submission with both --official and --rc
\* ends with status 1 and makes no external call at all.
C2_ConflictBeforeAnyCall ==
  (Submitting /\ FLAGS.official /\ FLAGS.rc) =>
    /\ pc = "done" => exitCode = 1
    /\ calls = <<>>

\* C2, amended: a submission with both --official and --rc ends with
\* status 1, and the account query is the only external call it makes.
C2_ConflictAfterAccountQuery ==
  (Submitting /\ FLAGS.official /\ FLAGS.rc) =>
    /\ pc = "done" => exitCode = 1
    /\ \A i \in 1..Len(calls) : calls[i].cmd = "auth_list"
    /\ Len(calls) <= 1

C2_Witness ==
  /\ Submitting
  /\ FLAGS.official
  /\ FLAGS.rc
  /\ pc = "done"
  /\ exitCode = 1
  /\ Printed(ConflictMsg)
  /\ calls = <<Call("auth_list", Empty)>>

\* The id the streamer validates: the argument, or without one the first
\* WORKING job of the list the build service returned.
StreamedId == IF ARG2 # Empty THEN ARG2 ELSE FirstWorking(buildsList.lines)

\* A string of exactly 32 hexadecimal digits and hyphens.
Is32HexHyphen(id) ==
  /\ Len(id) = 32
  /\ \A i \in 1..Len(id) : id[i] \in IdClass

\* Some 32 characters in a row of the string are hexadecimal digits or hyphens.
ContainsIdRun(id) ==
  \E first \in 1..Len(id) :
    /\ first + 31 <= Len(id)
    /\ \A i \in first..(first + 31) : id[i] \in IdClass

\* C3, as the claim states it: the log is streamed only for an id that is
\* a 32-character string of hexadecimal digits and hyphens.
C3_OnlyExact32Streamed ==
  (Streaming /\ Dispatched /\ ~Is32HexHyphen(StreamedId)) => ~Called("builds_log")

\* C3, amended: an id that holds no run of 32 hexadecimal digits and
\* hyphens is rejected and its log never streamed; an id that holds such a
\* run, longer ids included, is accepted and streamed.
C3_RunOf32Decides ==
  (Streaming /\ Dispatched) =>
    IF ContainsIdRun(StreamedId)
    THEN LastCall = Call("builds_log", StreamedId) /\ ~Printed(InvalidIdMsg)
    ELSE ~Called("builds_log") /\ Printed(InvalidIdMsg)

C3_Witness ==
  /\ Streaming
  /\ pc = "done"
  /\ ARG2 # Empty
  /\ Len(ARG2) > 32
  /\ ~(\A i \in 1..Len(ARG2) : ARG2[i] \in IdClass)
  /\ LastCall = Call("builds_log", ARG2)

\* C4: a tail with no job id, the build service reporting no WORKING job,
\* reports the problem and ends with a non-zero status.
C4_NoRunningJobFails ==
  (/\ Streaming
   /\ pc = "done"
   /\ ARG2 = Empty
   /\ Called("builds_list")
   /\ FirstWorking(buildsList.lines) = Empty) =>
    /\ Printed(InvalidIdMsg)
    /\ exitCode # 0

\* The text with its first plus sign, if it has one, made a hyphen.
FirstPlusMadeHyphen(v, r) ==
  IF \E i \in 1..Len(v) : v[i] = "+"
  THEN \E i \in 1..Len(v) :
         /\ v[i] = "+"
         /\ \A j \in 1..(i - 1) : v[j] # "+"
         /\ r = [v EXCEPT ![i] = "-"]
  ELSE r = v

\* The text with every occurrence of the character c replaced by rep.
RECURSIVE ReplaceAll(_, _, _)
ReplaceAll(s, c, rep) ==
  IF s = Empty THEN Empty
  ELSE (IF Head(s) = c THEN rep ELSE <<Head(s)>>) \o ReplaceAll(Tail(s), c, rep)

\* C5, as the claim states it: with a buildversion the build point is the
\* version with every plus sign made a hyphen, else HEAD under
\* --build-at-head, else find_green_build.
C5_EveryPlusReplaced ==
  pc = "dispatch" =>
    CFG.BUILD_POINT =
      IF FLAGS.buildversion # Empty THEN ReplaceAll(FLAGS.buildversion, "+", Dash)
      ELSE IF FLAGS.build_at_head THEN HEAD
      ELSE FindGreenBuild

\* C5, amended: with a buildversion the build point is the version with
\* its first plus sign made a hyphen, whether or not --build-at-head is
\* set; else HEAD under --build-at-head; else find_green_build.
C5_BuildPointPrecedence ==
  pc = "dispatch" =>
    IF FLAGS.buildversion # Empty
    THEN FirstPlusMadeHyphen(FLAGS.buildversion, CFG.BUILD_POINT)
    ELSE IF FLAGS.build_at_head THEN CFG.BUILD_POINT = HEAD
    ELSE CFG.BUILD_POINT = FindGreenBuild

C5_Witness ==
  /\ pc = "dispatch"
  /\ FLAGS.buildversion # Empty
  /\ FLAGS.build_at_head
  /\ HasChar(FLAGS.buildversion, "+")
  /\ HasChar(CFG.BUILD_POINT, "+")

\* C6: whatever the account, the operator tag holds no @ and no dot.
C6_TagHasNoAtNoDot ==
  pc \in {"configure", "dispatch", "done"} /\ Called("auth_list") =>
    /\ ~HasChar(GCP_USER_TAG, "@")
    /\ ~HasChar(GCP_USER_TAG, ".")

\* The jobs of the list the build service returned.
ListedJobs == SubSeq(buildsList.lines, 2, Len(buildsList.lines))

SameIgnoringCase(a, b) ==
  /\ Len(a) = Len(b)
  /\ \A i \in 1..Len(a) : LowerChar(a[i]) = LowerChar(b[i])

\* The positions of the listed jobs the filter lets through.
Matching == { i \in 1..Len(ListedJobs) :
                ARG2 = Empty \/ SameIgnoringCase(ListedJobs[i].status, ARG2) }

\* The position in the list of the job a row is about.
PositionOf(row) == CHOOSE i \in 1..Len(ListedJobs) : ListedJobs[i].id = row.id

\* C7: the rows are about jobs whose status is the filter in upper case
\* (any job without a filter), they come in the order of the list, there
\* are at most 5 of them, and they are the first matching jobs of the list.
C7_RowsMatchFilter ==
  (COMMAND = "list" /\ Dispatched) =>
    /\ Len(rows) <= 5
    /\ \A k \in 1..Len(rows) :
         /\ \E i \in Matching : ListedJobs[i].id = rows[k].id
         /\ ARG2 # Empty => ListedJobs[PositionOf(rows[k])].status = ToUpper(ARG2)
         /\ rows[k].s = SubSeq(ListedJobs[PositionOf(rows[k])].status, 1, 1)
    /\ \A k, l \in 1..Len(rows) : k < l => PositionOf(rows[k]) < PositionOf(rows[l])
    /\ Len(rows) = IF Cardinality(Matching) < 5 THEN Cardinality(Matching) ELSE 5
    /\ \A i \in Matching :
         (\A k \in 1..Len(rows) : rows[k].id # ListedJobs[i].id) =>
           \A k \in 1..Len(rows) : PositionOf(rows[k]) < i

C7_Witness ==
  /\ COMMAND = "list"
  /\ pc = "done"
  /\ ARG2 # Empty
  /\ ARG2 # ToUpper(ARG2)
  /\ Cardinality(Matching) > 5
  /\ Len(rows) = 5

\* C8: when the job-listing call fails, the tool ends with a non-zero
\* status.
C8_ListFailureFails ==
  (COMMAND = "list" /\ pc = "done" /\ Called("builds_list") /\ ~buildsList.ok) =>
    exitCode # 0

\* The confirmation asked and the answer given, if it was asked.
Confirmations == { i \in 1..Len(calls) : calls[i].cmd = "askyorn" }

\* C9: a release under --nomock submits nothing before the confirmation has
\* been asked; when the operator declines, the run ends with status 1 and
\* nothing is submitted; without --nomock no confirmation is asked.
C9_ConfirmationGuardsRelease ==
  COMMAND = "release" =>
    /\ FLAGS.nomock =>
         \A j \in 1..Len(calls) :
           calls[j].cmd = "builds_submit" =>
             \E i \in 1..(j - 1) : calls[i].cmd = "askyorn" /\ calls[i].arg.answer
    /\ (\E i \in Confirmations : ~calls[i].arg.answer) =>
         /\ exitCode = 1
         /\ ~Called("builds_submit")
    /\ ~FLAGS.nomock => Confirmations = {}

C9_Witness ==
  /\ COMMAND = "release"
  /\ FLAGS.nomock
  /\ FLAGS.official
  /\ ARG2 # Empty
  /\ pc = "done"
  /\ exitCode = 1
  /\ LastCall.cmd = "askyorn"
  /\ ~LastCall.arg.answer

\* C10, as the claim states it: when a submission fails for want of a
\* branch, no external service has been contacted and no confirmation
\* asked.
C10_NoBranchBeforeAnyCall ==
  (Submitting /\ ARG2 = Empty) =>
    /\ pc = "done" => exitCode # 0
    /\ calls = <<>>

\* C10, amended: a submission without a branch ends with status 1, never
\* looks up the version compatibility and never submits a job; the account
\* query precedes the failure, and so does, for a release under --nomock,
\* the confirmation.
C10_NoBranchNeverSubmits ==
  (Submitting /\ ARG2 = Empty) =>
    /\ pc = "done" => exitCode = 1
    /\ \A i \in 1..Len(calls) : calls[i].cmd \in {"auth_list", "askyorn"}
    /\ Called("askyorn") => COMMAND = "release" /\ FLAGS.nomock
    /\ Printed(BranchNotSetMsg) => Called("auth_list")

C10_Witness ==
  /\ COMMAND = "release"
  /\ ARG2 = Empty
  /\ pc = "done"
  /\ exitCode = 1
  /\ Printed(BranchNotSetMsg)
  /\ LastCall.cmd = "askyorn"

\* The value the substitutions give to a key.
SubstitutionOf(subs, key) ==
  subs[CHOOSE i \in 1..Len(subs) : subs[i][1] = key][2]

\* The submissions made, by their place in `calls`.
Submissions == { i \in 1..Len(calls) : calls[i].cmd = "builds_submit" }

\* The text is --buildversion= followed by the version, character by
\* character.
IsBuildversionOption(text, version) ==
  /\ Len(text) = 15 + Len(version)
  /\ SubSeq(text, 1, 15) =
       <<"-", "-", "b", "u", "i", "l", "d", "v", "e", "r", "s", "i", "o", "n", "=">>
  /\ \A i \in 1..Len(version) : text[15 + i] = version[i]

\* C11: a release is submitted with disk size 100 and the release job
\* definition, a stage with disk size 300 and the stage job definition, and
\* a buildversion that was given is submitted as _BUILDVERSION, whole and
\* unchanged, after --buildversion= (nothing is submitted as _BUILDVERSION
\* when none was given).
C11_SubmissionParameters ==
  \A i \in Submissions :
    LET job == calls[i].arg
        version == SubstitutionOf(job.substitutions, "_BUILDVERSION")
    IN  /\ COMMAND \in {"stage", "release"}
        /\ COMMAND = "release" =>
             job.disk_size = 100 /\ job.config = "gcb/release/cloudbuild.yaml"
        /\ COMMAND = "stage" =>
             job.disk_size = 300 /\ job.config = "gcb/stage/cloudbuild.yaml"
        /\ IF FLAGS.buildversion # Empty
           THEN IsBuildversionOption(version, FLAGS.buildversion)
           ELSE version = Empty

C11_Witness ==
  /\ COMMAND = "release"
  /\ FLAGS.official
  /\ ~FLAGS.nomock
  /\ HasChar(FLAGS.buildversion, "+")
  /\ pc = "done"
  /\ exitCode = 0
  /\ Submissions # {}
  /\ ~Called("askyorn")
  /\ HasChar(SubstitutionOf(LastCall.arg.substitutions, "_BUILDVERSION"), "+")

\* Every backing array a *Config reaches: its two lists and the platform
\* lists of their entries.
ArraysOf(h, p) == ({h[p].Binaries, h[p].Images} \ {Nil}) \cup PlatformArrays(h, p)

\* C12: once DeepCopy has returned, the copy is nil exactly when the
\* receiver is; otherwise the copy is another Config that holds what the
\* receiver was given (each list with the same elements in the same order,
\* each entry's platform list likewise, a nil list nil), no backing array is
\* reached from both, and the receiver still holds what it was given after
\* an element of a list of the copy has been written.
C12_DeepCopyIndependent ==
  gpc \in {"copied", "mutated"} =>
    /\ (result = Nil) <=> (receiver = Nil)
    /\ receiver # Nil =>
         /\ result # receiver
         /\ gpc = "copied" => ConfigValue(heap, result) = given
         /\ ArraysOf(heap, receiver) \cap ArraysOf(heap, result) = {}
         /\ ConfigValue(heap, receiver) = given

\* C12 happens: a configuration of two binaries, the second with two
\* platforms, and a nil image list was copied, a platform of the copy was
\* written, and the copy no longer holds what the receiver holds.
C12_Witness ==
  /\ gpc = "mutated"
  /\ ~given.Binaries.nil
  /\ Len(given.Binaries.elems) = 2
  /\ given.Binaries.elems[1].Platforms.nil
  /\ given.Binaries.elems[2].Platforms = List(<<"darwin/amd64", "linux/amd64">>)
  /\ given.Images.nil
  /\ ConfigValue(heap, receiver) = given
  /\ ConfigValue(heap, result).Images = NilList
  /\ ConfigValue(heap, result).Binaries.elems[2].Platforms
       = List(<<"darwin/amd64", "changed">>)
====
